---- MODULE Spec2Model ----
(***************************************************************************)
(* GPUPooledStorageManager (src/src/storage/pooled_storage_manager.h):     *)
(* the pooled device-memory allocator, with the device runtime             *)
(* (hipMemGetInfo, hipMalloc, hipFree) as its environment.                 *)
(*                                                                         *)
(* Sizes are counted in units of 32 bytes: TLC's integers are 32 bits      *)
(* wide, and the code compares a size with 2147483647.  Every size the     *)
(* model draws is a multiple of 32 bytes, so NDEV (32 bytes) is 1 unit,    *)
(* 4194304 bytes are 131072 units, and "size > 2147483647" bytes is        *)
(* "size > 67108863" units.  DevTotal is a multiple of 100 units, so that  *)
(* total * reserve_ / 100 divides the same in bytes and in units.          *)
(* size_t is modelled 35 bits wide (SizeMod units of 32 bytes) instead of  *)
(* 64: unsigned arithmetic wraps modulo SizeMod, and every size the model  *)
(* draws is below it.                                                      *)
(***************************************************************************)
EXTENDS Integers, Sequences, FiniteSets, TLC

\* ---------------------------------------------------------------- bounds
\* Device pointers the runtime can hand out: 1..MaxHandles (0 is nullptr).
MaxHandles == 2
\* Total device memory, as hipMemGetInfo reports it (units of 32 bytes).
DevTotal == 200000
\* Native allocations made with a replaced size (the counter then drifts
\* from the ledger without end): at most this many in a run.
MaxClamped == 1
\* Client threads of the threaded specification.
NThreads == 2
\* Calls of DirectFree by clients (each can make the counter drift): at most
\* this many in a run.
MaxDirect == 1

\* ------------------------------------------------------ program constants
\* The modulus of size_t arithmetic, in units of 32 bytes.
SizeMod == 2^30
\* const int NDEV = 32 (bytes).
NDEV == 1
\* if(size>2147483647): the largest size passed on unchanged.
MaxSpace == 67108863
\* size=4194304 (bytes): the size a larger request is replaced by.
TempFixSize == 131072
\* dmlc::GetEnv("MXNET_GPU_MEM_POOL_RESERVE", 5): the default.
DefaultReserve == 5

\* ------------------------------------------------------------ input sets
Handles == 1..MaxHandles
Threads == 1..NThreads
\* raw_size arguments: two small sizes and one whose bucket key is above
\* MaxSpace (2147483648 bytes).
RawSizes == {1, 3, MaxSpace}
\* raw_size arguments of the threaded specification.
ThreadSizes == {1, 3}
\* MXNET_GPU_MEM_POOL_RESERVE set to a percentage, or not set.
ReserveValues == {0, DefaultReserve, 100}
\* MXNET_GPU_MEM_POOL_RESERVE set to any int: percentages and values that
\* are none.
EnvReserve == ReserveValues \cup {-1, 150}
\* Memory of the device taken by its other consumers.
OtherLevels == {0, 189996, 190000}
\* What free and total hold when hipMemGetInfo fails and leaves them
\* uninitialized.
Garbage == {<<DevTotal, 7>>}
\* hipFree of one pointer: hipSuccess, or an error ("ignore unloading error,
\* as memory has already been recycled").
FreeResults == {"ok", "err"}

VARIABLES
    memory_pool_,   \* bucket key -> sequence of pooled pointers (back = last)
    used_memory_,   \* size_t used_memory_
    reserve_,       \* int reserve_
    alive,          \* constructed and not yet destroyed
    dev_live,       \* device: pointer -> size of its live region, 0 if none
    dev_other,      \* device: memory held by other consumers
    held,           \* callers: the <<pointer, raw_size>> pairs checked out
    last_op,        \* record of the last operation and its runtime calls
    clamped,        \* native allocations made with a replaced size, so far
    freed_as,       \* history: pointer -> raw_size of the Free that pooled it
    recent,         \* history: raw_size -> pointer of the latest Free of that
                    \* size, while no Alloc of the size and no ReleaseAll followed
    mutex_,         \* std::mutex mutex_: 0 when free, else the thread holding it
    th,             \* thread -> where it is in its call, and the call's locals
    direct,         \* calls of DirectFree made by clients, so far
    probe           \* raw sizes taken through the bucket-key arithmetic

vars == <<memory_pool_, used_memory_, reserve_, alive, dev_live, dev_other,
          held, last_op, clamped, freed_as, recent, mutex_, th, direct, probe>>

\* The variables of the threads and of the key arithmetic.
tvars == <<mutex_, th, direct, probe>>

\* ------------------------------------------------------------- helpers
RECURSIVE SumOver(_, _)
SumOver(f, S) ==
    IF S = {} THEN 0
    ELSE LET x == CHOOSE y \in S : TRUE IN f[x] + SumOver(f, S \ {x})

RECURSIVE SeqSet(_)
SeqSet(s) == IF s = <<>> THEN {} ELSE {Head(s)} \cup SeqSet(Tail(s))

\* Pointers in the free lists of a pool.
Pooled(pool) == UNION {SeqSet(pool[k]) : k \in DOMAIN pool}

\* Free device memory, as the runtime counts it.
DevFree(live, other) == DevTotal - other - SumOver(live, Handles)

\* freed_as of a pointer that is not pooled.
NoSize == -1
NoFreedAs == [h \in Handles |-> NoSize]
NoRecent == [r \in RawSizes |-> 0]

\* No raw size is being taken through the key arithmetic.
NoProbe == [stage |-> "none", raw |-> <<0, 0>>, key |-> <<0, 0>>,
            back |-> <<0, 0>>, used |-> 0, after |-> 0]

\* A thread outside every call.
Idle == [pc |-> "idle", ptr |-> 0, raw |-> 0, tmp |-> 0]

NoOp == [op |-> "init", raw |-> 0, ptr |-> 0, path |-> "-", result |-> "-",
         q |-> <<>>, flushed |-> FALSE, freed |-> {}, failed |-> {},
         native |-> 0, calls |-> <<>>, frees |-> <<>>]

\* ------------------------------------------------------ the allocator
\* Unsigned (size_t) addition, subtraction and multiplication.
UAdd(a, b) == (a + b) % SizeMod
USub(a, b) == (a - b) % SizeMod
UMul(a, b) == (a * b) % SizeMod

\* An addition that stops at the largest size_t instead of wrapping.
BucketKey_Saturating(raw) ==
    IF raw + NDEV >= SizeMod THEN SizeMod - 1 ELSE raw + NDEV

\* size_t size = raw_size + NDEV;
BucketKey(raw) == UAdd(raw, NDEV)

\* memory_pool_.end()
End == 0

\* A best-fit lookup: the smallest non-empty bucket whose key is at least size.
Find_BestFit(pool, size) ==
    LET fit == {k \in DOMAIN pool : k >= size /\ Len(pool[k]) > 0} IN
    IF fit = {} THEN End ELSE CHOOSE k \in fit : \A j \in fit : k <= j

\* memory_pool_.find(size): the bucket of exactly this key, or end().
Find(pool, size) == IF size \in DOMAIN pool THEN size ELSE End

\* A miss test that looks only at whether the bucket is in the map.
PoolMiss_EndOnly(pool, it) == it = End

\* reuse_it == memory_pool_.end() || reuse_it->second.size() == 0
PoolMiss(pool, it) ==
    IF it = End THEN TRUE ELSE Len(pool[it]) = 0

\* total * reserve_ / 100
Threshold(total, reserve) == UMul(total, reserve) \div 100

\* A test without its first disjunct: below the threshold the unsigned
\* difference wraps and no flush is asked for.
NeedFlush_NoFloor(free, total, size, reserve) ==
    size > USub(free, Threshold(total, reserve))

\* A test without its second disjunct: the size asked for is not compared
\* with the room above the threshold.
NeedFlush_NoRoom(free, total, size, reserve) ==
    free <= Threshold(total, reserve)

\* An "or" that evaluates both operands whatever the first gives.
RoomEvaluated_Always(free, total, reserve) == TRUE

\* Whether the right operand of || in line 81, with its subtraction, is
\* evaluated: only when the left operand is false.
RoomEvaluated(free, total, reserve) == ~(free <= Threshold(total, reserve))

\* free <= total * reserve_ / 100 || size > free - total * reserve_ / 100
NeedFlush(free, total, size, reserve) ==
    \/ free <= Threshold(total, reserve)
    \/ size > USub(free, Threshold(total, reserve))

\* if(size>2147483647) size=4194304;
NativeSize(size) == IF size > MaxSpace THEN TempFixSize ELSE size

\* A DirectFree that frees the pointer and leaves the counter alone.
DirectFree_NoCount(st, ptr, raw, res) ==
    [st EXCEPT !.live[ptr] = 0,
               !.log = Append(@, <<ptr, raw>>)]

\* A DirectFree that lowers the counter only when hipFree reports success.
DirectFree_OkOnly(st, ptr, raw, res) ==
    [st EXCEPT !.live[ptr] = 0,
               !.used = IF res = "ok" THEN USub(@, UAdd(raw, NDEV)) ELSE @,
               !.log = Append(@, <<ptr, raw>>)]

\* DirectFree(ptr, raw_size) on st = [pool, used, live, log]; res is what
\* hipFree reports for ptr, which the code ignores.  log lists the calls made,
\* each with its pointer and its raw_size.
DirectFree(st, ptr, raw, res) ==
    [st EXCEPT !.live[ptr] = 0,
               !.used = USub(@, UAdd(raw, NDEV)),
               !.log = Append(@, <<ptr, raw>>)]

\* A loop that stops after the first pointer of a bucket.
ReleaseBucket_FirstOnly(st, key, ptrs, res) ==
    IF ptrs = <<>> THEN st
    ELSE DirectFree(st, Head(ptrs), USub(key, NDEV), res[Head(ptrs)])

\* The inner loop of ReleaseAll over one bucket's vector.
RECURSIVE ReleaseBucket(_, _, _, _)
ReleaseBucket(st, key, ptrs, res) ==
    IF ptrs = <<>> THEN st
    ELSE ReleaseBucket(DirectFree(st, Head(ptrs), USub(key, NDEV),
                                  res[Head(ptrs)]),
                       key, Tail(ptrs), res)

\* The outer loop of ReleaseAll over the buckets named in keys.
RECURSIVE ReleaseBuckets(_, _, _)
ReleaseBuckets(st, keys, res) ==
    IF keys = {} THEN st
    ELSE LET k == CHOOSE x \in keys : TRUE IN
         ReleaseBuckets(ReleaseBucket(st, k, st.pool[k], res), keys \ {k}, res)

\* A ReleaseAll that frees every pooled pointer and leaves the lists as they
\* were.
ReleaseAll_NoClear(st, res) == ReleaseBuckets(st, DOMAIN st.pool, res)

\* ReleaseAll(): DirectFree of every pooled pointer, then memory_pool_.clear().
ReleaseAll(st, res) ==
    [ReleaseBuckets(st, DOMAIN st.pool, res) EXCEPT !.pool = <<>>]

\* A reuse that takes the oldest pooled pointer instead of the newest.
ReuseBack_Front(pool, it) == pool[it][1]

\* auto ret = reuse_pool.back();
ReuseBack(pool, it) == pool[it][Len(pool[it])]

\* A reuse that leaves the pointer in the free list.
ReusePop_Keep(pool, it) == pool

\* A reuse that empties the free list it takes its pointer from.
ReusePop_Clear(pool, it) == [pool EXCEPT ![it] = <<>>]

\* reuse_pool.pop_back();
ReusePop(pool, it) ==
    [pool EXCEPT ![it] = SubSeq(@, 1, Len(@) - 1)]

\* A Free that forgets the pointer.
FreePush_Drop(pool, size, ptr) == pool

\* A Free that puts the pointer at the front of the free list.
FreePush_Front(pool, size, ptr) ==
    [k \in DOMAIN pool \cup {size} |->
        IF k = size
        THEN <<ptr>> \o (IF size \in DOMAIN pool THEN pool[size] ELSE <<>>)
        ELSE pool[k]]

\* auto&& reuse_pool = memory_pool_[size]; reuse_pool.push_back(ptr);
FreePush(pool, size, ptr) ==
    [k \in DOMAIN pool \cup {size} |->
        IF k = size
        THEN Append(IF size \in DOMAIN pool THEN pool[size] ELSE <<>>, ptr)
        ELSE pool[k]]

\* A counter that is raised before hipMalloc's result is looked at.
UsedAfterMalloc_Early(used, size, ok) == UAdd(used, size)

\* used_memory_ += size, reached only when hipMalloc reported success.
UsedAfterMalloc(used, size, ok) == IF ok THEN UAdd(used, size) ELSE used

\* The outcomes of hipMemGetInfo(&free, &total): the device's values, or
\* uninitialized ones.
QueryResults == {<<DevFree(dev_live, dev_other), DevTotal>>} \cup Garbage

\* The outcomes of the hipFree calls of a flush of pool.
FlushResults(pool, flush) ==
    IF flush THEN [Pooled(pool) -> FreeResults] ELSE {<<>>}

\* A miss that, when hipMalloc fails, flushes the pool and tries once more.
MissCalls_Retry(flush) ==
    <<"hipMemGetInfo">> \o (IF flush THEN <<"ReleaseAll">> ELSE <<>>)
       \o <<"hipMalloc", "ReleaseAll", "hipMalloc">>

\* The calls of Alloc's miss branch, in order: hipMemGetInfo, ReleaseAll if
\* the test of line 81 holds, hipMalloc.
MissCalls(flush) ==
    <<"hipMemGetInfo">> \o (IF flush THEN <<"ReleaseAll">> ELSE <<>>)
       \o <<"hipMalloc">>

State == [pool |-> memory_pool_, used |-> used_memory_, live |-> dev_live,
          log |-> <<>>]

\* Alloc, the branch that finds no pooled pointer.
AllocMiss(raw) ==
    LET size == BucketKey(raw) IN
    /\ PoolMiss(memory_pool_, Find(memory_pool_, size))
    /\ NativeSize(size) # size => clamped < MaxClamped
    /\ clamped' = IF NativeSize(size) # size THEN clamped + 1 ELSE clamped
    /\ \E q \in QueryResults :
       LET flush == NeedFlush(q[1], q[2], size, reserve_) IN
       \E res \in FlushResults(memory_pool_, flush) :
       LET st == IF flush THEN ReleaseAll(State, res) ELSE State
           n == NativeSize(size)
           rec == [op |-> "Alloc", raw |-> raw, ptr |-> 0, path |-> "miss",
                   result |-> "fatal", q |-> q, flushed |-> flush,
                   freed |-> IF flush THEN Pooled(memory_pool_) ELSE {},
                   failed |-> IF flush
                              THEN {h \in Pooled(memory_pool_) : res[h] # "ok"}
                              ELSE {},
                   native |-> n,
                   frees |-> st.log,
                   calls |-> MissCalls(flush)]
       IN
       /\ memory_pool_' = st.pool
       /\ freed_as' = IF flush THEN NoFreedAs ELSE freed_as
       /\ recent' = IF flush THEN NoRecent ELSE [recent EXCEPT ![raw] = 0]
       /\ \/ \* hipMalloc reports an error: LOG(FATAL)
             /\ used_memory_' = UsedAfterMalloc(st.used, n, FALSE)
             /\ dev_live' = st.live
             /\ held' = held
             /\ last_op' = rec
          \/ \* hipMalloc succeeds and returns a pointer that is not live
             \E h \in Handles :
                /\ st.live[h] = 0
                /\ n <= DevFree(st.live, dev_other)
                /\ used_memory_' = UsedAfterMalloc(st.used, n, TRUE)
                /\ dev_live' = [st.live EXCEPT ![h] = n]
                /\ held' = held \cup {<<h, raw>>}
                /\ last_op' = [rec EXCEPT !.ptr = h, !.result = "ok"]
    /\ UNCHANGED <<reserve_, alive, dev_other>>

\* Alloc, the branch that reuses a pooled pointer.
AllocReuse(raw) ==
    LET size == BucketKey(raw)
        reuse_it == Find(memory_pool_, size) IN
    /\ ~PoolMiss(memory_pool_, reuse_it)
    /\ memory_pool_' = ReusePop(memory_pool_, reuse_it)
    /\ held' = held \cup {<<ReuseBack(memory_pool_, reuse_it), raw>>}
    /\ last_op' = [NoOp EXCEPT !.op = "Alloc", !.raw = raw, !.path = "reuse",
                               !.ptr = ReuseBack(memory_pool_, reuse_it),
                               !.result = "ok"]
    /\ freed_as' = [freed_as EXCEPT ![ReuseBack(memory_pool_, reuse_it)] = NoSize]
    /\ recent' = [recent EXCEPT ![raw] = 0]
    /\ UNCHANGED <<used_memory_, reserve_, alive, dev_live, dev_other, clamped>>

\* void* Alloc(size_t raw_size)
Alloc(raw) ==
    /\ alive
    /\ \/ AllocMiss(raw)
       \/ AllocReuse(raw)

\* void Free(void* ptr, size_t raw_size), for a pointer the caller holds.
Free(ptr, raw) ==
    /\ alive
    /\ <<ptr, raw>> \in held
    /\ memory_pool_' = FreePush(memory_pool_, BucketKey(raw), ptr)
    /\ held' = held \ {<<ptr, raw>>}
    /\ last_op' = [NoOp EXCEPT !.op = "Free", !.raw = raw, !.ptr = ptr,
                               !.result = "ok"]
    /\ freed_as' = [freed_as EXCEPT ![ptr] = raw]
    /\ recent' = [recent EXCEPT ![raw] = ptr]
    /\ UNCHANGED <<used_memory_, reserve_, alive, dev_live, dev_other, clamped>>

\* ~GPUPooledStorageManager(): ReleaseAll().
Destroy ==
    /\ alive
    /\ \E res \in FlushResults(memory_pool_, TRUE) :
       LET st == ReleaseAll(State, res) IN
       /\ memory_pool_' = st.pool
       /\ used_memory_' = st.used
       /\ dev_live' = st.live
       /\ last_op' = [NoOp EXCEPT !.op = "Destroy", !.flushed = TRUE,
                                  !.freed = Pooled(memory_pool_),
                                  !.failed = {h \in Pooled(memory_pool_) :
                                                 res[h] # "ok"},
                                  !.calls = <<"ReleaseAll">>,
                                  !.frees = st.log]
    /\ alive' = FALSE
    /\ freed_as' = NoFreedAs
    /\ recent' = NoRecent
    /\ UNCHANGED <<reserve_, dev_other, held, clamped>>

\* Another consumer of the device takes or gives back memory.
OtherConsumer ==
    /\ alive
    /\ \E o \in OtherLevels :
          /\ o # dev_other
          /\ o + SumOver(dev_live, Handles) <= DevTotal
          /\ dev_other' = o
    /\ last_op' = [NoOp EXCEPT !.op = "device"]
    /\ UNCHANGED <<memory_pool_, used_memory_, reserve_, alive, dev_live, held,
                   clamped, freed_as, recent>>

\* A constructor that allocates one block for the pool ahead of any Alloc.
InitReserve_Eager(values) ==
    /\ memory_pool_ = (BucketKey(1) :> <<1>>)
    /\ used_memory_ = BucketKey(1)
    /\ reserve_ \in values
    /\ alive = TRUE
    /\ dev_live = [h \in Handles |-> IF h = 1 THEN BucketKey(1) ELSE 0]
    /\ dev_other \in OtherLevels
    /\ held = {}
    /\ last_op = NoOp
    /\ clamped = 0
    /\ freed_as = [NoFreedAs EXCEPT ![1] = 1]
    /\ recent = NoRecent
    /\ mutex_ = 0
    /\ th = [t \in Threads |-> Idle]
    /\ direct = 0

\* GPUPooledStorageManager(): reserve_ one of values, an empty pool,
\* used_memory_ = 0, the mutex free.
InitReserve(values) ==
    /\ memory_pool_ = <<>>
    /\ used_memory_ = 0
    /\ reserve_ \in values
    /\ alive = TRUE
    /\ dev_live = [h \in Handles |-> 0]
    /\ dev_other \in OtherLevels
    /\ held = {}
    /\ last_op = NoOp
    /\ clamped = 0
    /\ freed_as = NoFreedAs
    /\ recent = NoRecent
    /\ mutex_ = 0
    /\ th = [t \in Threads |-> Idle]
    /\ direct = 0

\* Construction with a reserve percentage in its documented range.
Init == InitReserve(ReserveValues) /\ probe = NoProbe

\* ------------------------------------------- one caller at a time
\* A whole call of Alloc: std::lock_guard holds mutex_ from the first line to
\* the return (or to the exception of LOG(FATAL)).
CallAlloc(raw) == mutex_ = 0 /\ Alloc(raw) /\ UNCHANGED tvars

\* A whole call of Free, under its lock_guard.
CallFree(ptr, raw) == mutex_ = 0 /\ Free(ptr, raw) /\ UNCHANGED tvars

\* The destructor.
CallDestroy == mutex_ = 0 /\ Destroy /\ UNCHANGED tvars

\* The device's other consumers.
Device == OtherConsumer /\ UNCHANGED tvars

Next ==
    \/ \E raw \in RawSizes : CallAlloc(raw)
    \/ \E ptr \in Handles, raw \in RawSizes : CallFree(ptr, raw)
    \/ CallDestroy
    \/ Device

Spec == Init /\ [][Next]_vars

\* Construction with any value the environment variable can hold: the
\* constructor stores what dmlc::GetEnv returns.
InitEnv == InitReserve(EnvReserve) /\ probe = NoProbe

SpecEnv == InitEnv /\ [][Next]_vars

\* ------------------------------------------------------------ threads
\* No other thread is in a call on ptr.
Unshared(t, ptr) == \A u \in Threads \ {t} : th[u].ptr # ptr

\* The variables a step that only moves a thread leaves alone.
dvars == <<memory_pool_, used_memory_, reserve_, alive, dev_live, dev_other,
           held, clamped, freed_as, recent>>

\* Alloc, line 73: a thread enters Alloc(raw) and has not taken the lock yet.
T_AllocCall(t, raw) ==
    /\ alive /\ th[t].pc = "idle"
    /\ th' = [th EXCEPT ![t] = [Idle EXCEPT !.pc = "AllocCall", !.raw = raw]]
    /\ last_op' = [NoOp EXCEPT !.op = "call"]
    /\ UNCHANGED <<dvars, mutex_, direct, probe>>

\* A lock_guard in Alloc that does not wait for the mutex.
T_AllocLock_NoWait(t) ==
    /\ th[t].pc = "AllocCall"
    /\ mutex_' = t
    /\ th' = [th EXCEPT ![t].pc = "Alloc"]
    /\ last_op' = [NoOp EXCEPT !.op = "lock"]
    /\ UNCHANGED <<dvars, direct, probe>>

\* Alloc, line 74: std::lock_guard<std::mutex> lock(mutex_) returns once the
\* mutex is free.
T_AllocLock(t) ==
    /\ th[t].pc = "AllocCall" /\ mutex_ = 0
    /\ mutex_' = t
    /\ th' = [th EXCEPT ![t].pc = "Alloc"]
    /\ last_op' = [NoOp EXCEPT !.op = "lock"]
    /\ UNCHANGED <<dvars, direct, probe>>

\* An Alloc whose body asks for the mutex once more, as a ReleaseAll with a
\* lock_guard of its own would.
T_AllocBody_Relock(t) ==
    /\ th[t].pc = "Alloc" /\ mutex_ = 0
    /\ Alloc(th[t].raw)
    /\ mutex_' = 0
    /\ th' = [th EXCEPT ![t] = Idle]
    /\ UNCHANGED <<direct, probe>>

\* Alloc, lines 75 to 100, and the lock_guard's release.
T_AllocBody(t) ==
    /\ th[t].pc = "Alloc" /\ mutex_ = t
    /\ Alloc(th[t].raw)
    /\ mutex_' = 0
    /\ th' = [th EXCEPT ![t] = Idle]
    /\ UNCHANGED <<direct, probe>>

\* Free, line 103: a thread enters Free(ptr, raw) with a pointer it holds and
\* has not taken the lock yet.
T_FreeCall(t, ptr, raw) ==
    /\ alive /\ th[t].pc = "idle"
    /\ <<ptr, raw>> \in held /\ Unshared(t, ptr)
    /\ th' = [th EXCEPT ![t] = [Idle EXCEPT !.pc = "FreeCall", !.ptr = ptr,
                                            !.raw = raw]]
    /\ last_op' = [NoOp EXCEPT !.op = "call"]
    /\ UNCHANGED <<dvars, mutex_, direct, probe>>

\* A lock_guard in Free that does not wait for the mutex.
T_FreeLock_NoWait(t) ==
    /\ th[t].pc = "FreeCall"
    /\ mutex_' = t
    /\ th' = [th EXCEPT ![t].pc = "Free"]
    /\ last_op' = [NoOp EXCEPT !.op = "lock"]
    /\ UNCHANGED <<dvars, direct, probe>>

\* Free, line 104: std::lock_guard<std::mutex> lock(mutex_) returns once the
\* mutex is free.
T_FreeLock(t) ==
    /\ th[t].pc = "FreeCall" /\ mutex_ = 0
    /\ mutex_' = t
    /\ th' = [th EXCEPT ![t].pc = "Free"]
    /\ last_op' = [NoOp EXCEPT !.op = "lock"]
    /\ UNCHANGED <<dvars, direct, probe>>

\* Free, lines 105 to 107, and the lock_guard's release.
T_FreeBody(t) ==
    /\ th[t].pc = "Free" /\ mutex_ = t
    /\ Free(th[t].ptr, th[t].raw)
    /\ mutex_' = 0
    /\ th' = [th EXCEPT ![t] = Idle]
    /\ UNCHANGED <<direct, probe>>

\* DirectFree called by a client, lines 48 to 55 up to the load of
\* used_memory_: hipFree(ptr), no lock taken.
T_DirectFreeBegin(t, ptr, raw) ==
    /\ alive /\ th[t].pc = "idle"
    /\ <<ptr, raw>> \in held /\ Unshared(t, ptr)
    /\ direct < MaxDirect
    /\ direct' = direct + 1
    /\ \E res \in FreeResults :
          /\ dev_live' = DirectFree(State, ptr, raw, res).live
          /\ last_op' = [NoOp EXCEPT !.op = "DirectFree", !.ptr = ptr,
                                     !.raw = raw, !.freed = {ptr},
                                     !.failed = IF res = "ok" THEN {} ELSE {ptr},
                                     !.calls = <<"hipFree">>,
                                     !.frees = <<<<ptr, raw>>>>]
    /\ held' = held \ {<<ptr, raw>>}
    /\ th' = [th EXCEPT ![t] = [pc |-> "DirectFree", ptr |-> ptr, raw |-> raw,
                                tmp |-> used_memory_]]
    /\ UNCHANGED <<memory_pool_, used_memory_, reserve_, alive, dev_other,
                   clamped, freed_as, recent, mutex_, probe>>

\* DirectFree, line 55: the store of used_memory_ -= size.
T_DirectFreeEnd(t) ==
    /\ th[t].pc = "DirectFree"
    /\ used_memory_' =
          DirectFree([State EXCEPT !.used = th[t].tmp], th[t].ptr, th[t].raw,
                     "ok").used
    /\ th' = [th EXCEPT ![t] = Idle]
    /\ last_op' = [NoOp EXCEPT !.op = "DirectFree", !.ptr = th[t].ptr,
                               !.raw = th[t].raw]
    /\ UNCHANGED <<memory_pool_, reserve_, alive, dev_live, dev_other, held,
                   clamped, freed_as, recent, mutex_, direct, probe>>

\* The destructor, run by a thread once no thread is in a call: ReleaseAll()
\* with no lock taken.
T_Destroy(t) ==
    /\ \A u \in Threads : th[u].pc = "idle"
    /\ Destroy
    /\ UNCHANGED tvars

NextThreads ==
    \/ \E t \in Threads, raw \in ThreadSizes : T_AllocCall(t, raw)
    \/ \E t \in Threads : T_AllocLock(t)
    \/ \E t \in Threads : T_AllocBody(t)
    \/ \E t \in Threads, ptr \in Handles, raw \in ThreadSizes :
          T_FreeCall(t, ptr, raw)
    \/ \E t \in Threads : T_FreeLock(t)
    \/ \E t \in Threads : T_FreeBody(t)
    \/ \E t \in Threads, ptr \in Handles, raw \in ThreadSizes :
          T_DirectFreeBegin(t, ptr, raw)
    \/ \E t \in Threads : T_DirectFreeEnd(t)
    \/ \E t \in Threads : T_Destroy(t)

\* Thread t is past the point where its operation takes the lock, if it takes
\* one, and has accesses to the pool or the counter ahead.
InOperation(t) == th[t].pc \in {"Alloc", "Free", "DirectFree"}

\* The threaded specification starts with the default reserve.
InitThreads == Init /\ reserve_ = DefaultReserve

SpecThreads == InitThreads /\ [][NextThreads]_vars

\* A thread inside an operation goes on: the device calls of a body return
\* (weak fairness of the bodies), and a thread that waits in a lock_guard gets
\* the mutex if it is free again and again (strong fairness of the locks).
Fairness ==
    \A t \in Threads :
       /\ WF_vars(T_AllocBody(t))
       /\ WF_vars(T_FreeBody(t))
       /\ WF_vars(T_DirectFreeEnd(t))
       /\ SF_vars(T_AllocLock(t))
       /\ SF_vars(T_FreeLock(t))

\* The fair specification starts with the other consumers at the level that
\* leaves the device just above its reserve, where some misses flush and some
\* do not.
InitFair == InitThreads /\ dev_other = 189996

SpecFair == InitFair /\ [][NextThreads]_vars /\ Fairness

\* ------------------------------------------------- the key arithmetic
\* raw_size values at both ends of size_t and those the callers above use.
WrapSizes == {0, 1, 3, MaxSpace, SizeMod - 2, SizeMod - 1}

\* Values of used_memory_ a decrement starts from.
UsedSamples == {0, 5, SizeMod - 1}

\* Alloc, line 75, for two raw sizes: size = raw_size + NDEV.
Key_Alloc ==
    /\ probe.stage = "raw"
    /\ probe' = [probe EXCEPT !.stage = "key",
                              !.key = <<BucketKey(probe.raw[1]),
                                        BucketKey(probe.raw[2])>>]
    /\ UNCHANGED <<dvars, last_op, mutex_, th, direct>>

\* ReleaseAll, line 114: the argument i.first - NDEV for each of the two keys.
Key_ReleaseAll ==
    /\ probe.stage = "key"
    /\ probe' = [probe EXCEPT !.stage = "back",
                              !.back = <<USub(probe.key[1], NDEV),
                                         USub(probe.key[2], NDEV)>>]
    /\ UNCHANGED <<dvars, last_op, mutex_, th, direct>>

\* DirectFree, lines 49 and 55, called with the first of these arguments on
\* a counter that holds probe.used.
Key_DirectFree ==
    /\ probe.stage = "back"
    /\ \E ptr \in Handles, res \in FreeResults :
          probe' = [probe EXCEPT
                      !.stage = "done",
                      !.after = DirectFree([State EXCEPT !.used = probe.used],
                                           ptr, probe.back[1], res).used]
    /\ UNCHANGED <<dvars, last_op, mutex_, th, direct>>

NextKeys == Key_Alloc \/ Key_ReleaseAll \/ Key_DirectFree

\* A fresh allocator and two raw sizes about to go through the arithmetic.
InitKeys ==
    /\ InitReserve({DefaultReserve})
    /\ probe \in [stage : {"raw"}, raw : WrapSizes \X WrapSizes,
                   key : {<<0, 0>>}, back : {<<0, 0>>},
                   used : UsedSamples, after : {0}]

SpecKeys == InitKeys /\ [][NextKeys]_vars

\* ------------------------------------------------------------- claims

\* C1: LIFO reuse.  If a pointer was passed to Free(ptr, S) and neither a
\* ReleaseAll nor another Alloc(S) happened since, the next Alloc(S) returns
\* exactly that pointer and makes no call into the device runtime.
C1_LifoReuse ==
    [][\A S \in RawSizes :
          (recent[S] # 0 /\ last_op'.op = "Alloc" /\ last_op'.raw = S)
          => /\ last_op'.ptr = recent[S]
             /\ last_op'.result = "ok"
             /\ last_op'.calls = <<>>
             /\ last_op'.native = 0
             /\ dev_live' = dev_live
             /\ used_memory_' = used_memory_]_vars

\* A reuse has just returned the newer of two pointers pooled in one bucket.
C1_Witness ==
    /\ last_op.op = "Alloc" /\ last_op.path = "reuse"
    /\ BucketKey(last_op.raw) \in DOMAIN memory_pool_
    /\ Len(memory_pool_[BucketKey(last_op.raw)]) = 1
    /\ memory_pool_[BucketKey(last_op.raw)][1] # last_op.ptr

\* The ledger: the bucket keys of the pointers obtained from the device and
\* not yet passed back to it, checked out or pooled.
RECURSIVE HeldBytes(_)
HeldBytes(H) ==
    IF H = {} THEN 0
    ELSE LET x == CHOOSE y \in H : TRUE IN
         (x[2] + NDEV) + HeldBytes(H \ {x})

RECURSIVE PoolBytes(_, _)
PoolBytes(pool, keys) ==
    IF keys = {} THEN 0
    ELSE LET k == CHOOSE x \in keys : TRUE IN
         k * Len(pool[k]) + PoolBytes(pool, keys \ {k})

Ledger == HeldBytes(held) + PoolBytes(memory_pool_, DOMAIN memory_pool_)

\* C2: accounting invariant.  The used-memory counter equals the sum of the
\* bucket keys (raw size + overhead) of all pointers obtained from the device
\* and not yet returned to it, for every raw size.
C2_Accounting == used_memory_ = Ledger

\* C3: flush before allocate.  In every Alloc that misses the pool, if the
\* queried free capacity is at or below total*reserve/100, or the bucket key
\* exceeds free - total*reserve/100, ReleaseAll runs before the native
\* allocation of that Alloc: the pool is empty afterwards and every pointer
\* it held went to hipFree before hipMalloc ran.
C3_MustFlush ==
    LET free == last_op.q[1]
        total == last_op.q[2]
        thr == (total * reserve_) \div 100
    IN  free <= thr \/ last_op.raw + NDEV > free - thr

C3_FlushBeforeAllocate ==
    (last_op.op = "Alloc" /\ last_op.path = "miss" /\ C3_MustFlush)
    => /\ last_op.flushed
       /\ last_op.calls = <<"hipMemGetInfo", "ReleaseAll", "hipMalloc">>
       /\ memory_pool_ = <<>>
       /\ \A h \in last_op.freed : dev_live[h] = 0 \/ h = last_op.ptr

\* An Alloc flushed a pooled pointer at the exact boundary free = threshold
\* and then allocated natively.
C3_Witness ==
    /\ last_op.op = "Alloc" /\ last_op.path = "miss" /\ last_op.result = "ok"
    /\ last_op.q[2] = DevTotal
    /\ last_op.q[1] = (DevTotal * reserve_) \div 100
    /\ reserve_ = DefaultReserve
    /\ last_op.freed # {}

\* C4 as claimed: no successful native allocation made by Alloc leaves the
\* device's free capacity below total*reserve/100.
C4_ReserveKept ==
    (last_op.op = "Alloc" /\ last_op.path = "miss" /\ last_op.result = "ok")
    => DevFree(dev_live, dev_other) >= (DevTotal * reserve_) \div 100

\* C4, amended: a successful native allocation that Alloc makes without
\* flushing first leaves the free capacity it queried, less the size it
\* allocated, at or above the queried total*reserve/100.
C4_ReserveKeptWithoutFlush ==
    (last_op.op = "Alloc" /\ last_op.path = "miss" /\ last_op.result = "ok"
        /\ ~last_op.flushed)
    => last_op.q[1] - last_op.native >= (last_op.q[2] * reserve_) \div 100

\* An Alloc allocated natively without a flush and left the device exactly at
\* the threshold.
C4_Witness ==
    /\ last_op.op = "Alloc" /\ last_op.path = "miss" /\ last_op.result = "ok"
    /\ ~last_op.flushed
    /\ last_op.q[2] = DevTotal
    /\ reserve_ = DefaultReserve
    /\ DevFree(dev_live, dev_other) = (DevTotal * reserve_) \div 100

\* C5: no cross-bucket reuse.  A pointer that Alloc(S1) takes from the pool was
\* pooled by a Free(ptr, S2) with S2+overhead = S1+overhead; a pointer that
\* Alloc returns from the native allocation was in no free list when the
\* native allocation ran.
C5_NoCrossBucket ==
    [][(last_op'.op = "Alloc" /\ last_op'.result = "ok")
       => IF last_op'.path = "reuse"
          THEN /\ freed_as[last_op'.ptr] # NoSize
               /\ freed_as[last_op'.ptr] + NDEV = last_op'.raw + NDEV
          ELSE freed_as[last_op'.ptr] # NoSize
                  => last_op'.flushed /\ last_op'.ptr \in last_op'.freed]_vars

\* A reuse happened while a pointer of another bucket sat in the pool.
C5_Witness ==
    /\ last_op.op = "Alloc" /\ last_op.path = "reuse"
    /\ \E k \in DOMAIN memory_pool_ :
          k # BucketKey(last_op.raw) /\ Len(memory_pool_[k]) > 0

\* Pointers checked out to callers.
HeldPtrs == {x[1] : x \in held}

RECURSIVE PoolCount(_, _)
PoolCount(pool, keys) ==
    IF keys = {} THEN 0
    ELSE LET k == CHOOSE x \in keys : TRUE IN
         Len(pool[k]) + PoolCount(pool, keys \ {k})

\* C6: exclusive ownership.  With callers that free only what they hold, no
\* pointer is at once checked out and pooled, none is pooled twice, a pointer
\* Alloc returns is no longer in a free list, and Alloc never returns a
\* pointer that is still checked out.
C6_Exclusive ==
    /\ [](/\ HeldPtrs \cap Pooled(memory_pool_) = {}
          /\ PoolCount(memory_pool_, DOMAIN memory_pool_)
                = Cardinality(Pooled(memory_pool_))
          /\ Cardinality(HeldPtrs) = Cardinality(held)
          /\ (last_op.op = "Alloc" /\ last_op.result = "ok")
                => /\ last_op.ptr \notin Pooled(memory_pool_)
                   /\ <<last_op.ptr, last_op.raw>> \in held)
    /\ [][(last_op'.op = "Alloc" /\ last_op'.result = "ok")
            => last_op'.ptr \notin HeldPtrs]_vars

\* A reuse returned a pointer while every other pointer was checked out.
C6_Witness ==
    /\ last_op.op = "Alloc" /\ last_op.path = "reuse"
    /\ Cardinality(HeldPtrs) = MaxHandles
    /\ last_op.ptr \in HeldPtrs

\* C7: exact-size native allocation.  On every pool miss hipMalloc is called
\* with exactly the bucket key raw size + overhead, and on success the counter
\* grows by exactly that key.
C7_ExactNative ==
    (last_op.op = "Alloc" /\ last_op.path = "miss")
    => last_op.native = last_op.raw + NDEV

\* C8: allocation failure.  When hipMalloc reports failure Alloc ends fatally
\* and returns no pointer; the counter is not raised for the failed
\* allocation and no pointer is added to a free list: counter and pool are
\* what they were before the call, or what its flush made of them.
C8_FailureLeavesState ==
    [][(last_op'.op = "Alloc" /\ last_op'.result = "fatal")
       => /\ last_op'.ptr = 0
          /\ held' = held
          /\ dev_other' = dev_other
          /\ IF last_op'.flushed
             THEN /\ memory_pool_' = <<>>
                  /\ used_memory_' =
                       (used_memory_
                          - PoolBytes(memory_pool_, DOMAIN memory_pool_)) % SizeMod
                  /\ \A h \in Handles :
                       dev_live'[h] = IF h \in Pooled(memory_pool_)
                                      THEN 0 ELSE dev_live[h]
             ELSE /\ memory_pool_' = memory_pool_
                  /\ used_memory_' = used_memory_
                  /\ dev_live' = dev_live]_vars

\* A failed Alloc that flushed pooled pointers while a caller held another.
C8_Witness ==
    /\ last_op.op = "Alloc" /\ last_op.result = "fatal"
    /\ last_op.freed # {}
    /\ held # {}
    /\ used_memory_ > 0

\* C9: Free(ptr, S) never fails, calls nothing of the device runtime and leaves
\* the counter unchanged; it appends ptr at the end of the free list of bucket
\* S+overhead and leaves every other free list unchanged.
C9_FreeFrame ==
    /\ [](\A x \in held : alive => ENABLED Free(x[1], x[2]))
    /\ [][last_op'.op = "Free"
           => LET k == last_op'.raw + NDEV IN
              /\ last_op'.result = "ok"
              /\ last_op'.calls = <<>>
              /\ used_memory_' = used_memory_
              /\ dev_live' = dev_live
              /\ dev_other' = dev_other
              /\ DOMAIN memory_pool_' = DOMAIN memory_pool_ \cup {k}
              /\ memory_pool_'[k] =
                    Append(IF k \in DOMAIN memory_pool_
                           THEN memory_pool_[k] ELSE <<>>, last_op'.ptr)
              /\ \A j \in DOMAIN memory_pool_ \ {k} :
                    memory_pool_'[j] = memory_pool_[j]]_vars

\* A Free appended its pointer behind one already pooled in the same bucket.
C9_Witness ==
    /\ last_op.op = "Free"
    /\ Len(memory_pool_[BucketKey(last_op.raw)]) = 2
    /\ memory_pool_[BucketKey(last_op.raw)][2] = last_op.ptr

\* C10: mutual exclusion.  Every access of Alloc, Free, DirectFree and
\* ReleaseAll to the pool and the counter happens with the lock held, so the
\* operations of two threads on this state never interleave: while one thread
\* is between the first and the last access of its operation, no other is.
C10_MutualExclusion ==
    \A t \in Threads, u \in Threads :
       (t # u /\ InOperation(t)) => ~InOperation(u)

\* C11: concurrent Free calls are not lost.  When two threads are in Free on
\* the same bucket at once, each push appends its pointer behind what the free
\* list already holds, so both pointers are in the list afterwards; every
\* pointer pushed and not yet taken by an Alloc or a flush is in its bucket's
\* list; and while one thread is between taking the lock and its push, no
\* other thread is inside Alloc or Free, so an Alloc sees the list before or
\* after a push and never in between.
C11_FreesNotLost ==
    /\ [](/\ \A h \in Handles :
                freed_as[h] # NoSize
                => /\ BucketKey(freed_as[h]) \in DOMAIN memory_pool_
                   /\ h \in SeqSet(memory_pool_[BucketKey(freed_as[h])])
          /\ \A t \in Threads : th[t].pc \in {"Alloc", "Free"} => mutex_ = t
          /\ \A t \in Threads, u \in Threads :
                (t # u /\ th[t].pc = "Free") => th[u].pc \notin {"Alloc", "Free"})
    /\ [][last_op'.op = "Free"
           => LET k == BucketKey(last_op'.raw) IN
              /\ memory_pool_'[k] =
                    Append(IF k \in DOMAIN memory_pool_
                           THEN memory_pool_[k] ELSE <<>>, last_op'.ptr)
              /\ \A j \in DOMAIN memory_pool_ \ {k} :
                    memory_pool_'[j] = memory_pool_[j]
              /\ \A u \in Threads :
                    th[u].pc = "FreeCall" => th'[u] = th[u]]_vars

\* One of two Free calls that overlap in time has pushed its pointer while the
\* other thread, freeing into the same bucket, waits for the lock.
C11_Witness ==
    /\ last_op.op = "Free"
    /\ \E u \in Threads :
          /\ th[u].pc = "FreeCall"
          /\ BucketKey(th[u].raw) = BucketKey(last_op.raw)
          /\ th[u].ptr # last_op.ptr
          /\ last_op.ptr \in SeqSet(memory_pool_[BucketKey(last_op.raw)])

\* C12: ReleaseAll is idempotent.  In every reachable state, a ReleaseAll
\* followed at once by a second one: the second finds no pointer to pass to
\* hipFree, so it frees none a second time, and leaves pool, counter and
\* device as the first left them; on an empty pool ReleaseAll changes nothing.
\* And whenever the program itself flushes a pool that a flush has already
\* emptied, that flush frees nothing and changes neither counter nor device.
C12_ReleaseAllIdempotent ==
    /\ [](/\ \A res \in FlushResults(memory_pool_, TRUE) :
                LET once == ReleaseAll(State, res) IN
                /\ Pooled(once.pool) = {}
                /\ \A res2 \in FlushResults(once.pool, TRUE) :
                      ReleaseAll(once, res2) = once
          /\ memory_pool_ = <<>> => ReleaseAll(State, <<>>) = State)
    /\ [][(last_op.flushed /\ last_op'.flushed /\ memory_pool_ = <<>>)
           => /\ last_op'.freed = {}
              /\ memory_pool_' = <<>>
              /\ used_memory_' = IF last_op'.result = "ok"
                                 THEN UAdd(used_memory_, last_op'.native)
                                 ELSE used_memory_
              /\ \A h \in Handles \ {last_op'.ptr} :
                    dev_live'[h] = dev_live[h]]_vars

\* A flush has just passed a pooled pointer to hipFree while a caller holds
\* another pointer, so the counter it leaves is not zero and a second
\* ReleaseAll starts from a pool that was not empty before the first.
C12_Witness ==
    /\ last_op.flushed
    /\ last_op.freed # {}
    /\ memory_pool_ = <<>>
    /\ used_memory_ # 0
    /\ alive

\* C13 as claimed: the used-memory counter is zero immediately after a
\* ReleaseAll (the destructor's, or the flush of an Alloc whose native
\* allocation then failed and added nothing).
C13_ZeroAfterReleaseAll ==
    (last_op.flushed /\ last_op.result # "ok") => used_memory_ = 0

\* C13, amended: immediately after a ReleaseAll the counter is what it was
\* before, less the bucket keys of the pointers that were pooled (as size_t);
\* pointers checked out to callers stay counted, so the counter is zero only
\* if it equalled the pooled sum before.
C13_ReleaseAllSubtractsPooled ==
    [][last_op'.flushed
       => LET pooled == PoolBytes(memory_pool_, DOMAIN memory_pool_) % SizeMod
              after == USub(used_memory_, pooled)
          IN  /\ used_memory_' = IF last_op'.result = "ok"
                                 THEN UAdd(after, last_op'.native)
                                 ELSE after
              /\ (used_memory_ = pooled /\ last_op'.result # "ok")
                    => used_memory_' = 0]_vars

\* The destructor's ReleaseAll has freed a pooled pointer while a caller still
\* holds another one, which stays counted.
C13_Witness ==
    /\ last_op.op = "Destroy"
    /\ last_op.freed # {}
    /\ held # {}
    /\ used_memory_ = HeldBytes(held)
    /\ used_memory_ # 0

\* C14: ReleaseAll, as the flush inside Alloc or at destruction, calls
\* DirectFree for every pointer of every free list exactly once, each with the
\* raw size of the bucket the pointer was in, calls it for nothing else, and
\* leaves every free list empty; the device has every one of these pointers
\* back, and after destruction the only pointers the device still counts as
\* allocated are those checked out to callers.
C14_ReleaseAllFreesEach ==
    /\ [](~alive => /\ memory_pool_ = <<>>
                    /\ \A h \in Handles : dev_live[h] # 0 => h \in HeldPtrs)
    /\ [][last_op'.flushed
           => LET frees == last_op'.frees IN
              /\ memory_pool_' = <<>>
              /\ Len(frees) = PoolCount(memory_pool_, DOMAIN memory_pool_)
              /\ \A k \in DOMAIN memory_pool_ :
                    \A i \in 1..Len(memory_pool_[k]) :
                       \E j \in 1..Len(frees) :
                          frees[j] = <<memory_pool_[k][i], USub(k, NDEV)>>
              /\ \A i \in 1..Len(frees), j \in 1..Len(frees) :
                    i # j => frees[i][1] # frees[j][1]
              /\ {frees[i][1] : i \in 1..Len(frees)} = last_op'.freed
              /\ \A h \in Pooled(memory_pool_) :
                    h = last_op'.ptr \/ dev_live'[h] = 0]_vars

\* A ReleaseAll has freed two pooled pointers, of one bucket or of two.
C14_Witness ==
    /\ last_op.flushed
    /\ Len(last_op.frees) = 2
    /\ memory_pool_ = <<>>

\* C15: DirectFree(ptr, S) lowers the counter by exactly S + overhead whether
\* hipFree reports success or failure, and a failure is not escalated: what a
\* ReleaseAll does to pool, counter and its list of DirectFree calls does not
\* depend on which hipFree calls failed, and a ReleaseAll in which one failed
\* still frees every pooled pointer, empties the pool and lets the operation
\* around it (the Alloc, the destructor) go on as it would have.
C15_FreeFailureIgnored ==
    /\ [](/\ \A x \in held, res \in FreeResults :
                DirectFree(State, x[1], x[2], res).used
                   = USub(used_memory_, UAdd(x[2], NDEV))
          /\ \A r1 \in FlushResults(memory_pool_, TRUE),
                r2 \in FlushResults(memory_pool_, TRUE) :
                ReleaseAll(State, r1) = ReleaseAll(State, r2))
    /\ [][(last_op'.flushed /\ last_op'.failed # {})
           => LET pooled == PoolBytes(memory_pool_, DOMAIN memory_pool_) % SizeMod
                  after == USub(used_memory_, pooled)
              IN  /\ Len(last_op'.frees)
                        = PoolCount(memory_pool_, DOMAIN memory_pool_)
                  /\ memory_pool_' = <<>>
                  /\ used_memory_' = IF last_op'.result = "ok"
                                     THEN UAdd(after, last_op'.native)
                                     ELSE after
                  /\ last_op'.op = "Destroy" => ~alive'
                  /\ last_op'.op = "Alloc"
                        => last_op'.calls
                              = <<"hipMemGetInfo", "ReleaseAll", "hipMalloc">>]_vars

\* An Alloc flushed two pooled pointers, hipFree failed for one of them and
\* not for the other, and the Alloc went on to allocate and returned a
\* pointer.
C15_Witness ==
    /\ last_op.op = "Alloc" /\ last_op.result = "ok"
    /\ last_op.flushed
    /\ Cardinality(last_op.freed) = 2
    /\ Cardinality(last_op.failed) = 1

\* C16: a reserve percentage outside 0..100 is a configuration error found at
\* construction, so no allocator that serves an Alloc has a reserve value
\* outside 0..100.
C16_ReserveChecked ==
    last_op.op = "Alloc" => reserve_ \in 0..100

\* How many times call c stands in the sequence calls.
CountCalls(c, calls) == Cardinality({i \in 1..Len(calls) : calls[i] = c})

\* C17: no retry.  One Alloc calls hipMalloc at most once (once on a miss,
\* never on a reuse) and ReleaseAll at most once, each pooled pointer going to
\* hipFree at most once; when hipMalloc fails the Alloc ends fatally at once:
\* it returns no pointer, nothing is newly allocated on the device, and what
\* callers hold is unchanged; when it succeeds exactly one pointer is newly
\* allocated, the one returned.
C17_NoRetry ==
    [][last_op'.op = "Alloc"
       => /\ CountCalls("hipMalloc", last_op'.calls)
                = IF last_op'.path = "miss" THEN 1 ELSE 0
          /\ CountCalls("ReleaseAll", last_op'.calls)
                = IF last_op'.flushed THEN 1 ELSE 0
          /\ Len(last_op'.frees)
                = IF last_op'.flushed
                  THEN PoolCount(memory_pool_, DOMAIN memory_pool_) ELSE 0
          /\ last_op'.result = "fatal"
                => /\ last_op'.ptr = 0
                   /\ held' = held
                   /\ alive'
                   /\ \A h \in Handles : dev_live'[h] # 0 => dev_live[h] # 0
                   /\ ~last_op'.flushed => memory_pool_' = memory_pool_
          /\ (last_op'.result = "ok" /\ last_op'.path = "miss")
                => {h \in Handles :
                       /\ dev_live'[h] # 0
                       /\ dev_live[h] = 0 \/ h \in last_op'.freed}
                     = {last_op'.ptr}]_vars

\* An Alloc has failed in hipMalloc without a flush while a pointer of
\* another bucket stays pooled: no flush and no second attempt followed.
C17_Witness ==
    /\ last_op.op = "Alloc" /\ last_op.result = "fatal"
    /\ ~last_op.flushed
    /\ Pooled(memory_pool_) # {}
    /\ last_op.calls = <<"hipMemGetInfo", "hipMalloc">>

\* C18: no operation blocks for ever.  With device calls that return and a
\* lock that is granted fairly, every thread that has entered Alloc, Free or
\* DirectFree is outside it again later, and it holds the mutex only while it
\* is between the lock_guard and the end of Alloc or Free; a thread that holds
\* the mutex inside Alloc can always run its body, flush included, without
\* asking for the mutex again.
C18_NoBlocking ==
    /\ \A t \in Threads : (th[t].pc # "idle") ~> (th[t].pc = "idle")
    /\ [](\A t \in Threads :
            /\ th[t].pc = "Alloc" => mutex_ = t /\ ENABLED T_AllocBody(t)
            /\ th[t].pc = "Free" => mutex_ = t /\ ENABLED T_FreeBody(t)
            /\ th[t].pc \notin {"Alloc", "Free"} => mutex_ # t)

\* A thread's Alloc has flushed a pooled pointer and given the mutex back
\* while the other thread waits in its lock_guard.
C18_Witness ==
    /\ last_op.op = "Alloc" /\ last_op.flushed /\ last_op.freed # {}
    /\ mutex_ = 0
    /\ \E u \in Threads : th[u].pc \in {"AllocCall", "FreeCall"}

\* C19: reuse-path frame.  An Alloc served from the pool removes exactly one
\* pointer, the last, from the free list of its own bucket and returns it;
\* the pointers before it in that list and their order, every other bucket's
\* free list, the counter and the device are unchanged.
C19_ReuseFrame ==
    [][(last_op'.op = "Alloc" /\ last_op'.path = "reuse")
       => LET k == BucketKey(last_op'.raw) IN
          /\ k \in DOMAIN memory_pool_
          /\ Len(memory_pool_[k]) > 0
          /\ last_op'.ptr = memory_pool_[k][Len(memory_pool_[k])]
          /\ DOMAIN memory_pool_' = DOMAIN memory_pool_
          /\ memory_pool_'[k]
                = SubSeq(memory_pool_[k], 1, Len(memory_pool_[k]) - 1)
          /\ \A j \in DOMAIN memory_pool_ \ {k} :
                memory_pool_'[j] = memory_pool_[j]
          /\ used_memory_' = used_memory_
          /\ dev_live' = dev_live
          /\ dev_other' = dev_other
          /\ reserve_' = reserve_
          /\ alive' = alive
          /\ held' = held \cup {<<last_op'.ptr, last_op'.raw>>}]_vars

\* A reuse took the last of two pointers of its bucket; the first is still
\* pooled there and the caller holds the one returned.
C19_Witness ==
    /\ last_op.op = "Alloc" /\ last_op.path = "reuse"
    /\ <<last_op.ptr, last_op.raw>> \in held
    /\ \E h \in Handles \ {last_op.ptr} :
          memory_pool_[BucketKey(last_op.raw)] = <<h>>
    /\ used_memory_ # 0

\* C20: fresh capacity query.  Every Alloc that misses the pool calls
\* hipMemGetInfo first, before the flush decision and before hipMalloc, and
\* the free and total that the decision uses are the device's values at that
\* call, never anything else.
C20_FreshQuery ==
    [][(last_op'.op = "Alloc" /\ last_op'.path = "miss")
       => /\ Head(last_op'.calls) = "hipMemGetInfo"
          /\ last_op'.q = <<DevFree(dev_live, dev_other), DevTotal>>
          /\ last_op'.flushed
                = NeedFlush(DevFree(dev_live, dev_other), DevTotal,
                            BucketKey(last_op'.raw), reserve_)]_vars

\* C21: concurrent Allocs never share a pooled pointer.  With two threads
\* inside Alloc for one bucket at once, only the one that holds the mutex is
\* past its lock_guard; a pointer an Alloc takes from a free list leaves that
\* list in the same step and was checked out to nobody, so no pointer is ever
\* checked out twice and none is at once checked out and pooled.
C21_NoSharedHandle ==
    /\ [](/\ Cardinality(HeldPtrs) = Cardinality(held)
          /\ HeldPtrs \cap Pooled(memory_pool_) = {}
          /\ \A t \in Threads, u \in Threads :
                (t # u /\ th[t].pc = "Alloc") => th[u].pc # "Alloc"
          /\ \A t \in Threads : th[t].pc = "Alloc" => mutex_ = t)
    /\ [][(last_op'.op = "Alloc" /\ last_op'.result = "ok")
           => /\ last_op'.ptr \notin HeldPtrs
              /\ last_op'.ptr \notin Pooled(memory_pool_')
              /\ last_op'.path = "reuse"
                    => /\ last_op'.ptr \in Pooled(memory_pool_)
                       /\ PoolCount(memory_pool_', DOMAIN memory_pool_')
                             = PoolCount(memory_pool_, DOMAIN memory_pool_) - 1]_vars

\* One thread's Alloc has taken a pointer from a free list while the other
\* thread waits in the lock_guard of an Alloc for the same bucket.
C21_Witness ==
    /\ last_op.op = "Alloc" /\ last_op.path = "reuse"
    /\ \E u \in Threads :
          /\ th[u].pc = "AllocCall"
          /\ BucketKey(th[u].raw) = BucketKey(last_op.raw)

\* C22: a newly constructed allocator has an empty bucket map and a counter
\* of zero, and construction has called nothing of the device runtime: no
\* pointer is allocated on the device and none is checked out.  A pointer
\* becomes allocated on the device only in the miss branch of an Alloc, by
\* its hipMalloc.
C22_LazyConstruction ==
    /\ [](last_op.op = "init"
            => /\ memory_pool_ = <<>>
               /\ used_memory_ = 0
               /\ \A h \in Handles : dev_live[h] = 0
               /\ held = {}
               /\ last_op.calls = <<>>
               /\ alive)
    /\ [][(\E h \in Handles : dev_live[h] = 0 /\ dev_live'[h] # 0)
           => /\ last_op'.op = "Alloc"
              /\ last_op'.path = "miss"
              /\ last_op'.result = "ok"
              /\ CountCalls("hipMalloc", last_op'.calls) = 1]_vars

\* The only pointer the device has allocated is the one a miss of Alloc has
\* just returned, and the counter holds its size: a first native allocation.
C22_Witness ==
    /\ last_op.op = "Alloc" /\ last_op.path = "miss" /\ last_op.result = "ok"
    /\ held = {<<last_op.ptr, last_op.raw>>}
    /\ memory_pool_ = <<>>
    /\ \A h \in Handles : dev_live[h] # 0 <=> h = last_op.ptr
    /\ used_memory_ = last_op.native

\* C23: an oversized request, one whose bucket key is larger than the queried
\* capacity above the reserve threshold or larger than the queried total, is
\* handled like ordinary exhaustion: the Alloc flushes the pool and then calls
\* hipMalloc for that request's bucket key.
C23_OversizedAsExhaustion ==
    LET key == last_op.raw + NDEV
        free == last_op.q[1]
        total == last_op.q[2]
        thr == (total * reserve_) \div 100
    IN  (/\ last_op.op = "Alloc" /\ last_op.path = "miss"
         /\ key > total \/ key > free - thr)
        => /\ last_op.flushed
           /\ last_op.calls = <<"hipMemGetInfo", "ReleaseAll", "hipMalloc">>
           /\ last_op.native = key

\* C24: an emptied bucket is a miss.  A bucket whose free list is empty but
\* whose entry is still in the map counts as a miss; an Alloc of that size
\* takes the native-allocation path, pops nothing, and returns a pointer that
\* was in no free list when hipMalloc ran (the flush of that Alloc may have
\* freed it before); a reuse leaves its bucket's entry in the map.
C24_EmptyBucketIsMiss ==
    /\ [](\A S \in RawSizes :
            (BucketKey(S) \in DOMAIN memory_pool_
               /\ memory_pool_[BucketKey(S)] = <<>>)
            => PoolMiss(memory_pool_, Find(memory_pool_, BucketKey(S))))
    /\ [][(/\ last_op'.op = "Alloc"
           /\ BucketKey(last_op'.raw) \in DOMAIN memory_pool_
           /\ memory_pool_[BucketKey(last_op'.raw)] = <<>>)
          => /\ last_op'.path = "miss"
             /\ CountCalls("hipMalloc", last_op'.calls) = 1
             /\ memory_pool_' = IF last_op'.flushed THEN <<>> ELSE memory_pool_
             /\ (last_op'.result = "ok"
                   /\ last_op'.ptr \in Pooled(memory_pool_))
                   => last_op'.ptr \in last_op'.freed]_vars
    /\ [][(last_op'.op = "Alloc" /\ last_op'.path = "reuse")
          => BucketKey(last_op'.raw) \in DOMAIN memory_pool_']_vars

\* An Alloc has allocated natively, without a flush, for a bucket whose entry
\* is in the map with an empty free list.
C24_Witness ==
    /\ last_op.op = "Alloc" /\ last_op.path = "miss" /\ last_op.result = "ok"
    /\ ~last_op.flushed
    /\ BucketKey(last_op.raw) \in DOMAIN memory_pool_
    /\ memory_pool_[BucketKey(last_op.raw)] = <<>>

\* Whether each DirectFree call of frees, made in order on a counter that
\* starts at used, subtracts at most what the counter then holds.
RECURSIVE DecrementsFit(_, _)
DecrementsFit(used, frees) ==
    IF frees = <<>> THEN TRUE
    ELSE LET size == UAdd(Head(frees)[2], NDEV) IN
         /\ size <= used
         /\ DecrementsFit(used - size, Tail(frees))

\* C25: the unsigned counter never wraps below zero.  With callers that free
\* only pointers they hold, with the size they asked for, every decrement of
\* a ReleaseAll subtracts at most the counter's value at that moment.
C25_NoCounterUnderflow ==
    [][last_op'.flushed => DecrementsFit(used_memory_, last_op'.frees)]_vars

\* C26: every pointer Alloc(raw) has returned, fresh or reused, names a device
\* region that was natively allocated with at least raw + overhead; and every
\* pointer in the free list of bucket k was natively allocated with size k.
C26_RegionLargeEnough ==
    /\ \A x \in held : dev_live[x[1]] >= x[2] + NDEV
    /\ \A k \in DOMAIN memory_pool_ :
          \A i \in 1..Len(memory_pool_[k]) : dev_live[memory_pool_[k][i]] = k

\* Pointers the device counts as allocated to this allocator.
Live == {h \in Handles : dev_live[h] # 0}

\* C27: handle conservation.  Every pointer obtained from hipMalloc and not
\* yet passed to hipFree is either checked out to one caller or in exactly one
\* free list, once, and never both; and in every step the successful native
\* allocations less the native frees equal the change of checked-out plus
\* pooled pointers, so that allocations = checked out + pooled + frees holds
\* throughout and no pointer is dropped without a native free.
C27_HandleConservation ==
    /\ [](/\ Live = HeldPtrs \cup Pooled(memory_pool_)
          /\ HeldPtrs \cap Pooled(memory_pool_) = {}
          /\ Cardinality(HeldPtrs) = Cardinality(held)
          /\ PoolCount(memory_pool_, DOMAIN memory_pool_)
                = Cardinality(Pooled(memory_pool_)))
    /\ [][LET mallocs == IF last_op'.op = "Alloc" /\ last_op'.path = "miss"
                            /\ last_op'.result = "ok"
                         THEN 1 ELSE 0
              frees == Len(last_op'.frees)
          IN  (Cardinality(held') + PoolCount(memory_pool_', DOMAIN memory_pool_'))
                 - (Cardinality(held) + PoolCount(memory_pool_, DOMAIN memory_pool_))
              = mallocs - frees]_vars

\* An Alloc has flushed a pooled pointer and hipMalloc has handed the same
\* address out again, while a caller holds the other pointer.
C27_Witness ==
    /\ last_op.op = "Alloc" /\ last_op.result = "ok"
    /\ last_op.ptr \in last_op.freed
    /\ Cardinality(held) = 2
    /\ Live = HeldPtrs

\* C28: the flush test never underflows.  In an Alloc that misses, with a
\* reserve value in 0..100 and a queried free <= total, the unsigned
\* subtraction free - total*reserve/100 is evaluated only when free is above
\* total*reserve/100, so its result is the exact difference and the bucket key
\* is never compared with a wrapped-around value; when it is not evaluated the
\* Alloc flushes.
C28_NoUnderflowInTest ==
    LET free == last_op.q[1]
        total == last_op.q[2]
        thr == (total * reserve_) \div 100
    IN  (/\ last_op.op = "Alloc" /\ last_op.path = "miss"
         /\ reserve_ \in 0..100
         /\ free <= total)
        => IF RoomEvaluated(free, total, reserve_)
           THEN /\ free > thr
                /\ USub(free, Threshold(total, reserve_)) = free - thr
                /\ last_op.flushed = (last_op.raw + NDEV > free - thr)
           ELSE /\ free <= thr
                /\ last_op.flushed

\* An Alloc missed with the queried free capacity above the threshold by
\* exactly its bucket key, so the subtraction ran and no flush was needed.
C28_Witness ==
    /\ last_op.op = "Alloc" /\ last_op.path = "miss"
    /\ reserve_ \in 1..100
    /\ last_op.q[1] <= last_op.q[2]
    /\ last_op.q[1] - (last_op.q[2] * reserve_) \div 100 = last_op.raw + NDEV
    /\ ~last_op.flushed

\* C29: bucket-key round trip.  raw size -> raw size + overhead is injective
\* over size_t, also where the addition wraps; ReleaseAll's key - overhead
\* followed by DirectFree's + overhead gives the bucket key back, also where
\* the subtraction wraps; so the DirectFree that ReleaseAll makes for a
\* pointer of bucket k lowers the counter by exactly k.
C29_KeyRoundTrip ==
    /\ probe.stage \in {"key", "back", "done"}
          => /\ probe.key[1] = probe.key[2] => probe.raw[1] = probe.raw[2]
             /\ \A i \in 1..2 : probe.key[i] = (probe.raw[i] + NDEV) % SizeMod
    /\ probe.stage \in {"back", "done"}
          => \A i \in 1..2 : /\ probe.back[i] = probe.raw[i]
                             /\ BucketKey(probe.back[i]) = probe.key[i]
    /\ probe.stage = "done"
          => probe.after = (probe.used - probe.key[1]) % SizeMod

\* The round trip is through for a raw size whose addition wraps to key 0,
\* next to one whose key is the largest size_t, from a counter of 5.
C29_Witness ==
    /\ probe.stage = "done"
    /\ probe.raw = <<SizeMod - 1, SizeMod - 2>>
    /\ probe.key = <<0, SizeMod - 1>>
    /\ probe.used = 5
    /\ probe.after = 5

====
